---------------------------- MODULE Spec2Model ----------------------------
(***************************************************************************)
(* A model of pymatgen's regular-expression extraction helpers             *)
(* (pymatgen/io/qchem_io/temp_utils.py: read_pattern and                   *)
(* new_read_table_pattern) and of the spectrum plotter                     *)
(* (pymatgen/vis/plotters.py: SpectrumPlotter).                            *)
(***************************************************************************)
EXTENDS Integers, Sequences, FiniteSets, TLC

VARIABLES
    \* ---- SpectrumPlotter object -------------------------------------
    xshift,        \* self.xshift
    yshift,        \* self.yshift
    stack,         \* self.stack
    colors_cycle,  \* self.colors_cycle (the palette's mpl_colors)
    colors,        \* self.colors
    spectra,       \* self._spectra: insertion-ordered dict, as a sequence of
                   \* [label, spectrum] entries
    adds,          \* history: the successful add_spectrum calls, in order
    lastCall,      \* the most recent call on the plotter and its outcome
    \* ---- text extraction --------------------------------------------
    text_str,      \* the text handed to both extractors
    cfg,           \* the patterns and options of the calls
    matches,       \* outcome of read_pattern
    tablesAll,     \* outcome of new_read_table_pattern(last_one_only=False)
    tableLast      \* outcome of new_read_table_pattern(last_one_only=True)

plotVars == <<xshift, yshift, stack, colors_cycle, colors, spectra, adds, lastCall>>
textVars == <<text_str, cfg, matches, tablesAll, tableLast>>
vars == <<plotVars, textVars>>

-----------------------------------------------------------------------------
(* Bounds of the model. *)

\* successful add_spectrum calls made on one plotter
MaxAdds == 3
\* characters of the scanned text
MaxLen == 6

-----------------------------------------------------------------------------
(* Generic helpers. *)

RECURSIVE Flatten(_)
\* concatenation of a sequence of sequences, in order
Flatten(ss) == IF ss = <<>> THEN <<>> ELSE Head(ss) \o Flatten(Tail(ss))

RECURSIVE SeqsUpTo(_, _)
\* all sequences over S of length at most n
SeqsUpTo(S, n) ==
    IF n = 0 THEN {<<>>}
    ELSE LET shorter == SeqsUpTo(S, n - 1)
         IN  shorter \cup {Append(s, c) : s \in {t \in shorter : Len(t) = n - 1}, c \in S}

-----------------------------------------------------------------------------
(*                             SpectrumPlotter                             *)

\* the palette named by color_cycle = ("qualitative", "Set1_3"): the shortest
\* Set1 palette, so that the index len(self._spectra) % len(colors_cycle) wraps
Set1_3 == <<"c0", "c1", "c2">>
Palettes == {Set1_3}

\* the value None
None == "None"

\* Objects handed to add_spectrum.  attrs is the set of attributes the object
\* has; x and y are its coordinate arrays (numpy arrays in the program).
SpA == [attrs |-> {"x", "y"}, x |-> <<0, 1>>, y |-> <<1, 2>>]
SpB == [attrs |-> {"x", "y"}, x |-> <<0, 1>>, y |-> <<2, 0>>]
NoX == [attrs |-> {"y"}, x |-> <<>>, y |-> <<1, 2>>]
NoY == [attrs |-> {"x"}, x |-> <<0, 1>>, y |-> <<>>]
ValidSpectra == {SpA, SpB}
Objects == {SpA, SpB, NoX, NoY}
Labels == {"a", "b", "c"}
\* colour arguments: None, the empty string (falsy) and a matplotlib string
ColorArgs == {None, "", "k"}
\* constructor arguments (xshift, yshift): the defaults and a unit shift
Shifts == {<<0, 0>>, <<1, 1>>}

hasattr(obj, attribute) == attribute \in obj.attrs

\* Python truthiness of a colour argument (`color or ...`)
Truthy(color) == color # None /\ color # ""

\* position of label among the dict's keys, 0 when absent
KeyIndex(d, label) ==
    IF \E i \in 1..Len(d) : d[i].label = label
    THEN CHOOSE i \in 1..Len(d) : d[i].label = label
    ELSE 0

\* variant of DictSet: a re-added key is deleted and inserted anew, at the end
DictSet_MoveToEnd(d, label, spectrum) ==
    LET keep == {i \in 1..Len(d) : d[i].label # label}
        nth(k) == CHOOSE i \in keep : Cardinality({j \in keep : j < i}) = k - 1
    IN  Append([k \in 1..Cardinality(keep) |-> d[nth(k)]],
               [label |-> label, spectrum |-> spectrum])

\* d[label] = spectrum on an insertion-ordered dict: an existing key keeps its
\* position, a new key goes last
DictSet(d, label, spectrum) ==
    LET i == KeyIndex(d, label)
        e == [label |-> label, spectrum |-> spectrum]
    IN  IF i = 0 THEN Append(d, e) ELSE [d EXCEPT ![i] = e]

\* the attribute check of add_spectrum: the first of "x", "y" the object lacks
MissingAttribute(spectrum) ==
    IF ~hasattr(spectrum, "x") THEN "x"
    ELSE IF ~hasattr(spectrum, "y") THEN "y"
    ELSE None

\* variant of add_spectrum: the object is stored before its attributes are
\* checked
add_spectrum_StoreFirst(st, cycle, label, spectrum, color) ==
    LET sp == DictSet(st.spectra, label, spectrum)
        c  == IF Truthy(color) THEN color
              ELSE cycle[(Len(sp) % Len(cycle)) + 1]
    IN  IF MissingAttribute(spectrum) # None
        THEN [st EXCEPT !.err = "ValueError", !.spectra = sp]
        ELSE [err     |-> None,
              spectra |-> sp,
              colors  |-> Append(st.colors, c),
              adds    |-> Append(st.adds,
                                 [label |-> label, spectrum |-> spectrum, color |-> c])]

\* add_spectrum on the state st = [spectra, colors, adds]: the state after the
\* call, plus err, the exception raised (None when it returns)
add_spectrum(st, cycle, label, spectrum, color) ==
    IF MissingAttribute(spectrum) # None
    THEN [st EXCEPT !.err = "ValueError"]
    ELSE LET sp == DictSet(st.spectra, label, spectrum)
             c  == IF Truthy(color) THEN color
                   ELSE cycle[(Len(sp) % Len(cycle)) + 1]
         IN  [err     |-> None,
              spectra |-> sp,
              colors  |-> Append(st.colors, c),
              adds    |-> Append(st.adds,
                                 [label |-> label, spectrum |-> spectrum, color |-> c])]

PlotterState == [err |-> None, spectra |-> spectra, colors |-> colors, adds |-> adds]


\* an insertion-ordered dict {label: object} handed to add_spectra, as the
\* sequence of its items
DictLabels == {"a", "b"}
DictObjects == {SpB, NoY}
Dicts ==
    {d \in SeqsUpTo([label : DictLabels, spectrum : DictObjects], Cardinality(DictLabels)) :
        /\ Len(d) >= 1
        /\ \A i, j \in 1..Len(d) : i # j => d[i].label # d[j].label}

\* key_sort_func arguments: None, or a key function ordering labels a < b < c
KeyFuncs == {None, "ord"}
LabelOrd(label) == CASE label = "a" -> 1 [] label = "b" -> 2 [] OTHER -> 3

\* sorted(spectra_dict, key=key_sort_func): the dict's items by ascending key
Sorted(d) ==
    LET pos(i) == Cardinality({j \in 1..Len(d) : LabelOrd(d[j].label) < LabelOrd(d[i].label)}) + 1
    IN  [k \in 1..Len(d) |-> d[CHOOSE i \in 1..Len(d) : pos(i) = k]]

RECURSIVE AddEach(_, _, _)
\* the loop of add_spectra: one add_spectrum per item, the first exception
\* ends the loop and propagates
AddEach(st, cycle, items) ==
    IF items = <<>> THEN st
    ELSE LET r == add_spectrum(st, cycle, Head(items).label, Head(items).spectrum, None)
         IN  IF r.err # None THEN r ELSE AddEach(r, cycle, Tail(items))

add_spectra(st, cycle, spectra_dict, key_sort_func) ==
    LET keys == IF key_sort_func # None THEN Sorted(spectra_dict) ELSE spectra_dict
    IN  AddEach(st, cycle, keys)

\* numpy: array + scalar and array + array, elementwise
AddScalar(a, k) == [i \in 1..Len(a) |-> a[i] + k]
AddArrays(a, b) == [i \in 1..Len(a) |-> a[i] + b[i]]
\* the scalar 0.0, broadcast against an array of n points
Zeros(n) == [i \in 1..n |-> 0]

\* what get_plot draws for the entry at 0-based position idx; base is read
\* only by fill_between
Artist(st, cfgp, idx, entry, base) ==
    [kind  |-> IF cfgp.stack THEN "fill_between" ELSE "plot",
     x     |-> entry.spectrum.x,
     base  |-> IF cfgp.stack THEN base ELSE <<>>,
     y     |-> AddScalar(entry.spectrum.y, cfgp.yshift * idx),
     color |-> st.colors[idx + 1],
     label |-> entry.label]

\* variant of NextBase: the baseline is the previous curve alone, not the
\* running sum
NextBase_PreviousOnly(cfgp, entry, base) ==
    IF cfgp.stack THEN entry.spectrum.y ELSE base

\* the running baseline after an entry was drawn
NextBase(cfgp, entry, base) ==
    IF cfgp.stack THEN AddArrays(entry.spectrum.y, base) ELSE base

RECURSIVE DrawFrom(_, _, _, _)
\* the loop of get_plot from 0-based position idx on: the artists drawn (ret),
\* or err = "IndexError" when self.colors[idx] is out of range
DrawFrom(st, cfgp, idx, base) ==
    IF idx >= Len(st.spectra) THEN [err |-> None, ret |-> <<>>]
    ELSE IF idx + 1 > Len(st.colors) THEN [err |-> "IndexError", ret |-> <<>>]
    ELSE LET entry == st.spectra[idx + 1]
             rest  == DrawFrom(st, cfgp, idx + 1, NextBase(cfgp, entry, base))
         IN  IF rest.err # None THEN rest
             ELSE [err |-> None,
                   ret |-> <<Artist(st, cfgp, idx, entry, base)>> \o rest.ret]

\* get_plot: base = 0.0, then the loop over self._spectra.items()
get_plot(st, cfgp) ==
    LET n == IF st.spectra = <<>> THEN 0 ELSE Len(st.spectra[1].spectrum.y)
    IN  DrawFrom(st, cfgp, 0, Zeros(n))

PlotterConfig == [xshift |-> xshift, yshift |-> yshift, stack |-> stack]
NoObject == [attrs |-> {}, x |-> <<>>, y |-> <<>>]


\* a call on the plotter: the method, the object handed to add_spectrum, the
\* exception raised (None when it returns) and the value returned
Call(op, spectrum, err, ret) ==
    [op |-> op, spectrum |-> spectrum, err |-> err, ret |-> ret]

\* the text-extraction variables as they are while the plotter runs
TextIdle ==
    /\ text_str = <<>>
    /\ cfg = None
    /\ matches = None
    /\ tablesAll = None
    /\ tableLast = None

\* SpectrumPlotter(xshift, yshift, stack, color_cycle)
InitPlotter ==
    /\ \E s \in Shifts : xshift = s[1] /\ yshift = s[2]
    /\ stack \in BOOLEAN
    /\ colors_cycle \in Palettes
    /\ colors = <<>>
    /\ spectra = <<>>
    /\ adds = <<>>
    /\ lastCall = Call("__init__", NoObject, None, <<>>)
    /\ TextIdle

AddSpectrum ==
    \E label \in Labels, spectrum \in Objects, color \in ColorArgs :
        LET r == add_spectrum(PlotterState, colors_cycle, label, spectrum, color)
        IN  /\ Len(adds) < MaxAdds
            /\ spectra' = r.spectra
            /\ colors' = r.colors
            /\ adds' = r.adds
            /\ lastCall' = Call("add_spectrum", spectrum, r.err, <<>>)
            /\ UNCHANGED <<xshift, yshift, stack, colors_cycle, textVars>>

AddSpectra ==
    \E spectra_dict \in Dicts, key_sort_func \in KeyFuncs :
        LET r == add_spectra(PlotterState, colors_cycle, spectra_dict, key_sort_func)
        IN  /\ Len(adds) + Len(spectra_dict) <= MaxAdds
            /\ spectra' = r.spectra
            /\ colors' = r.colors
            /\ adds' = r.adds
            /\ lastCall' = Call("add_spectra", NoObject, r.err, <<>>)
            /\ UNCHANGED <<xshift, yshift, stack, colors_cycle, textVars>>

GetPlot ==
    LET r == get_plot(PlotterState, PlotterConfig)
    IN  /\ lastCall' = Call("get_plot", NoObject, r.err, r.ret)
        /\ UNCHANGED <<xshift, yshift, stack, colors_cycle, colors, spectra, adds, textVars>>

NextPlotter == AddSpectrum \/ AddSpectra \/ GetPlot

SpecPlotter == InitPlotter /\ [][NextPlotter]_vars


-----------------------------------------------------------------------------
(*          Regular expressions: the part of Python's re in use            *)

(* A text is a sequence of characters.  "n" stands for the newline, "-" for *)
(* a delimiter character (a dash line) and "1", "2" for digits.             *)
Alphabet == {"-", "1", "2", "n"}
Digits == {"1", "2"}
Whitespace == {"n"}
Texts == SeqsUpTo(Alphabet, MaxLen)

(* A pattern is a concatenation of items.  An item is a character class     *)
(* (cls: "d" for \d, "s" for \s, "ds" for [\d\s], "." for the dot, anything *)
(* else a literal character) with a greedy quantifier (q: "1" for exactly one, "+", "*")   *)
(* and a capture group around it (grp: "" for none, "#" for an unnamed      *)
(* group, anything else the name of a named group).                         *)
Item(cls, q, grp) == [cls |-> cls, q |-> q, grp |-> grp]

\* the characters an item's class matches; the dot matches the newline only
\* under re.DOTALL
Chars(cls, dotall) ==
    CASE cls = "d" -> Digits
      [] cls = "s" -> Whitespace
      [] cls = "ds" -> Digits \cup Whitespace
      [] cls = "." -> IF dotall THEN Alphabet ELSE Alphabet \ Whitespace
      [] OTHER -> {cls}

RECURSIVE RunLen(_, _, _)
\* how many characters of text from offset pos on are in chars
RunLen(chars, text, pos) ==
    IF pos < Len(text) /\ text[pos + 1] \in chars
    THEN 1 + RunLen(chars, text, pos + 1)
    ELSE 0

\* the lengths a quantified item tries on a run of matching characters, in
\* the order the backtracking matcher tries them (greedy: longest first)
Lens(q, run) ==
    CASE q = "1" -> IF run >= 1 THEN <<1>> ELSE <<>>
      [] q = "+" -> [k \in 1..run |-> run - k + 1]
      [] OTHER   -> [k \in 1..(run + 1) |-> run - k + 1]

RECURSIVE SeqPaths(_, _, _, _, _)
\* every way items[i..] match text from offset pos, in the matcher's order
\* of preference: the offset each ends at and the groups it captures
SeqPaths(items, i, text, pos, dotall) ==
    IF i > Len(items) THEN <<[end |-> pos, groups |-> <<>>]>>
    ELSE LET it   == items[i]
             lens == Lens(it.q, RunLen(Chars(it.cls, dotall), text, pos))
             grp(l) == IF it.grp = "" THEN <<>>
                       ELSE <<[name |-> it.grp, val |-> SubSeq(text, pos + 1, pos + l)]>>
             with(l) == LET tails == SeqPaths(items, i + 1, text, pos + l, dotall)
                        IN  [j \in 1..Len(tails) |->
                                [end |-> tails[j].end, groups |-> grp(l) \o tails[j].groups]]
         IN  Flatten([k \in 1..Len(lens) |-> with(lens[k])])

\* the lengths \s* tries from offset pos
SpaceLens(text, pos) == Lens("*", RunLen(Whitespace, text, pos))

RECURSIVE RowsPlus(_, _, _)
\* (?:row)+ from offset pos under DOTALL: the offsets it can end at, in order
\* of preference (one more row is tried before stopping; a repetition that
\* consumes nothing ends the loop)
RowsPlus(row, text, pos) ==
    LET first == SeqPaths(row, 1, text, pos, TRUE)
        from(e) == (IF e > pos THEN RowsPlus(row, text, e) ELSE <<>>) \o <<e>>
    IN  Flatten([k \in 1..Len(first) |-> from(first[k].end)])

\* header \s* (?P<table_body>(?:row)+) \s* footer, compiled with
\* re.MULTILINE | re.DOTALL, from offset pos: every way it matches, in order
\* of preference, with the span of the table_body group
TablePaths(header, row, footer, text, pos) ==
    LET hs == SeqPaths(header, 1, text, pos, TRUE)
        tail(b0, b1) ==
            LET ws == SpaceLens(text, b1)
                foot(p) == LET fs == SeqPaths(footer, 1, text, p, TRUE)
                           IN  [j \in 1..Len(fs) |->
                                   [start |-> pos, end |-> fs[j].end, body |-> <<b0, b1>>]]
            IN  Flatten([k \in 1..Len(ws) |-> foot(b1 + ws[k])])
        body(b0) ==
            LET rs == RowsPlus(row, text, b0)
            IN  Flatten([k \in 1..Len(rs) |-> tail(b0, rs[k])])
        head(h) ==
            LET ws == SpaceLens(text, h)
            IN  Flatten([k \in 1..Len(ws) |-> body(h + ws[k])])
    IN  Flatten([k \in 1..Len(hs) |-> head(hs[k].end)])

\* a match may be empty only if the scan is not just past an empty match
Advancing(paths, pos, mustAdvance) ==
    SelectSeq(paths, LAMBDA m : ~mustAdvance \/ m.end > pos)

RECURSIVE FindIter(_, _, _, _, _)
\* pattern.finditer(text) for a compiled concatenation of items: the
\* non-overlapping matches, leftmost first, each the preferred way to match
\* at its offset
FindIter(items, text, pos, dotall, mustAdvance) ==
    IF pos > Len(text) THEN <<>>
    ELSE LET ms == Advancing(SeqPaths(items, 1, text, pos, dotall), pos, mustAdvance)
         IN  IF ms = <<>> THEN FindIter(items, text, pos + 1, dotall, FALSE)
             ELSE <<[start |-> pos, end |-> ms[1].end, groups |-> ms[1].groups]>>
                  \o FindIter(items, text, ms[1].end, dotall, ms[1].end = pos)

RECURSIVE FindIterTable(_, _, _, _, _, _)
\* table_pattern.finditer(text_str)
FindIterTable(header, row, footer, text, pos, mustAdvance) ==
    IF pos > Len(text) THEN <<>>
    ELSE LET ms == Advancing(TablePaths(header, row, footer, text, pos), pos, mustAdvance)
         IN  IF ms = <<>> THEN FindIterTable(header, row, footer, text, pos + 1, FALSE)
             ELSE <<ms[1]>>
                  \o FindIterTable(header, row, footer, text, ms[1].end, ms[1].end = pos)

-----------------------------------------------------------------------------
(*                 temp_utils.py: the two extractors                       *)

\* the names bound at module level in temp_utils.py by its import statements
ModuleGlobals == {"re", "logging", "os", "zopen", "MSONable", "regrep"}

\* looking a global name up raises NameError when nothing binds it
Bound(name) == name \in ModuleGlobals

\* outcome of a call: the exception raised (None when it returns) and the
\* value returned
Returned(val) == [err |-> None, val |-> val]
Raised(err) == [err |-> err, val |-> <<>>]

\* a call that was not made yet
Pending == [err |-> "pending", val |-> <<>>]

RECURSIVE Strip(_)
\* str.strip() as int() applies it: leading and trailing whitespace removed
Strip(v) ==
    IF v # <<>> /\ v[1] \in Whitespace THEN Strip(Tail(v))
    ELSE IF v # <<>> /\ v[Len(v)] \in Whitespace THEN Strip(SubSeq(v, 1, Len(v) - 1))
    ELSE v

DigitValue(c) == IF c = "1" THEN 1 ELSE 2

RECURSIVE Decimal(_)
Decimal(v) == IF v = <<>> THEN 0 ELSE 10 * Decimal(SubSeq(v, 1, Len(v) - 1)) + DigitValue(v[Len(v)])

\* whether postprocess(v) raises: str never does, int raises ValueError unless
\* v is a decimal numeral, possibly surrounded by whitespace
PostRaises(postprocess, v) ==
    /\ postprocess = "int"
    /\ \/ Strip(v) = <<>>
       \/ \E k \in 1..Len(Strip(v)) : Strip(v)[k] \notin Digits

\* postprocess(v) when it does not raise: str leaves the captured text as it
\* is, int gives the number it denotes
Post(postprocess, v) == IF postprocess = "int" THEN Decimal(Strip(v)) ELSE v

\* match.groups(): the captured texts, in order
Groups(m) == [k \in 1..Len(m.groups) |-> m.groups[k].val]

\* match.groupdict(): the named groups, by name
GroupDict(m) ==
    LET named == {k \in 1..Len(m.groups) : m.groups[k].name # "#"}
    IN  [name \in {m.groups[k].name : k \in named} |->
            m.groups[CHOOSE k \in named : m.groups[k].name = name].val]

\* [postprocess(i) for i in match.groups()]
Record(m, postprocess) == [k \in 1..Len(m.groups) |-> Post(postprocess, Groups(m)[k])]

\* some captured value of some match makes postprocess raise
AnyRaises(ms, postprocess) ==
    \E j \in 1..Len(ms) : \E k \in 1..Len(ms[j].groups) :
        PostRaises(postprocess, ms[j].groups[k].val)

\* the inner loop of read_pattern for one compiled pattern: one record per
\* match of finditer, only the first one under terminate_on_match
Scan(pattern, text, terminate_on_match, postprocess) ==
    LET all == FindIter(pattern, text, 0, TRUE, FALSE)
        ms  == IF terminate_on_match /\ all # <<>> THEN <<all[1]>> ELSE all
    IN  IF AnyRaises(ms, postprocess) THEN Raised("ValueError")
        ELSE Returned([j \in 1..Len(ms) |-> Record(ms[j], postprocess)])

\* read_pattern.  patterns is a dict {key: pattern}; the result is the
\* defaultdict matches: a key is in it once a match of its pattern was
\* appended.  collections is looked up before the loop starts.
read_pattern(text, patterns, terminate_on_match, postprocess) ==
    IF ~Bound("collections") THEN Raised("NameError")
    ELSE LET scans == [key \in DOMAIN patterns |->
                          Scan(patterns[key], text, terminate_on_match, postprocess)]
             hit   == {key \in DOMAIN patterns : scans[key].err = None /\ scans[key].val # <<>>}
         IN  IF \E key \in DOMAIN patterns : scans[key].err # None
             THEN Raised("ValueError")
             ELSE Returned([key \in hit |-> scans[key].val])

\* matches[key] on the defaultdict(list) read_pattern returns
Lookup(result, key) == IF key \in DOMAIN result THEN result[key] ELSE <<>>

\* the row matches of one table body: rp = re.compile(row_pattern), without
\* flags, scans the text of the table_body group
RowMatches(row, text, mt) ==
    FindIter(row, SubSeq(text, mt.body[1] + 1, mt.body[2]), 0, FALSE, FALSE)

\* processed_line: a dict when the row pattern has named groups, else a list
ProcessedLine(ml, postprocess) ==
    LET d == GroupDict(ml)
    IN  IF DOMAIN d # {}
        THEN [k \in DOMAIN d |-> Post(postprocess, d[k])]
        ELSE Record(ml, postprocess)

\* table_contents of one composite match
TableContents(row, text, mt, postprocess) ==
    LET mls == RowMatches(row, text, mt)
    IN  [j \in 1..Len(mls) |-> ProcessedLine(mls[j], postprocess)]

\* a last_one_only that keeps tables[0] in place of tables[-1]
Retained_First(tables, last_one_only) ==
    IF last_one_only
    THEN IF tables = <<>> THEN Raised("IndexError") ELSE Returned(tables[1])
    ELSE Returned(tables)

\* what last_one_only keeps of tables: tables[-1] raises IndexError on []
Retained(tables, last_one_only) ==
    IF last_one_only
    THEN IF tables = <<>> THEN Raised("IndexError") ELSE Returned(tables[Len(tables)])
    ELSE Returned(tables)

\* the value returned: data = {attribute_name: retained_data} when a name is
\* given, else retained_data
Wrapped(retained, attribute_name) ==
    IF attribute_name # None THEN [k \in {attribute_name} |-> retained] ELSE retained

new_read_table_pattern(text, header, row, footer, postprocess, attribute_name, last_one_only) ==
    LET mts == FindIterTable(header, row, footer, text, 0, FALSE)
        raises == \E j \in 1..Len(mts) : AnyRaises(RowMatches(row, text, mts[j]), postprocess)
        tables == [j \in 1..Len(mts) |-> TableContents(row, text, mts[j], postprocess)]
        kept == Retained(tables, last_one_only)
    IN  IF raises THEN Raised("ValueError")
        ELSE IF kept.err # None THEN kept
        ELSE Returned(Wrapped(kept.val, attribute_name))

\* patterns the callers hand in, with the Python source of each
\* r"(.)"
RowAny == <<Item(".", "1", "#")>>
\* r"-"
PDash == <<Item("-", "1", "")>>
\* r"(\d)"
RowDigit == <<Item("d", "1", "#")>>
\* r"(\d+)"
RowDigits == <<Item("d", "+", "#")>>
\* r"(?P<v>\d)"
RowNamed == <<Item("d", "1", "v")>>
\* r"(\d)\n"
RowLine == <<Item("d", "1", "#"), Item("n", "1", "")>>
\* r"(\d)."
RowDigitAny == <<Item("d", "1", "#"), Item(".", "1", "")>>
\* r"([\d\s])"
RowDigitOrSpace == <<Item("ds", "1", "#")>>
\* r"(\d)(\d)"
PPair == <<Item("d", "1", "#"), Item("d", "1", "#")>>

\* the arguments of the calls made on one text
Config(row, postprocess, attribute_name, patterns, terminate_on_match) ==
    [header |-> PDash, row |-> row, footer |-> PDash,
     postprocess |-> postprocess, attribute_name |-> attribute_name,
     patterns |-> patterns, terminate_on_match |-> terminate_on_match]

Configs ==
    {Config(RowDigit,        "int", "tbl", [num |-> RowDigits, dash |-> PDash], FALSE),
     Config(RowDigits,       "str", None,  [num |-> RowDigit, pair |-> PPair],  TRUE),
     Config(RowNamed,        "int", None,  [num |-> RowNamed],                  TRUE),
     Config(RowLine,         "int", None,  [line |-> RowLine, dash |-> PDash],  FALSE),
     Config(RowDigitAny,     "str", None,  [any |-> RowAny],                    TRUE),
     Config(RowDigitOrSpace, "int", None,  [ds |-> RowDigitOrSpace],            FALSE)}

\* the plotter's variables as they are while the extractors run
PlotterIdle ==
    /\ xshift = 0
    /\ yshift = 0
    /\ stack = FALSE
    /\ colors_cycle = Set1_3
    /\ colors = <<>>
    /\ spectra = <<>>
    /\ adds = <<>>
    /\ lastCall = Call("__init__", NoObject, None, <<>>)

\* a caller holding a text and the arguments, before any call
InitExtract ==
    /\ text_str \in Texts
    /\ cfg \in Configs
    /\ matches = Pending
    /\ tablesAll = Pending
    /\ tableLast = Pending
    /\ PlotterIdle

\* the caller calls read_pattern on its text
ReadPattern ==
    /\ matches.err = "pending"
    /\ matches' = read_pattern(text_str, cfg.patterns, cfg.terminate_on_match, cfg.postprocess)
    /\ UNCHANGED <<text_str, cfg, tablesAll, tableLast, plotVars>>

NextPattern == ReadPattern

SpecPattern == InitExtract /\ [][NextPattern]_vars

\* the caller calls new_read_table_pattern on its text, with
\* last_one_only=False and then with last_one_only=True
ReadTableAll ==
    /\ tablesAll.err = "pending"
    /\ tablesAll' = new_read_table_pattern(text_str, cfg.header, cfg.row, cfg.footer,
                                           cfg.postprocess, cfg.attribute_name, FALSE)
    /\ UNCHANGED <<text_str, cfg, matches, tableLast, plotVars>>

ReadTableLast ==
    /\ tablesAll.err # "pending"
    /\ tableLast.err = "pending"
    /\ tableLast' = new_read_table_pattern(text_str, cfg.header, cfg.row, cfg.footer,
                                           cfg.postprocess, cfg.attribute_name, TRUE)
    /\ UNCHANGED <<text_str, cfg, matches, tablesAll, plotVars>>

NextExtract == ReadTableAll \/ ReadTableLast

SpecExtract == InitExtract /\ [][NextExtract]_vars

-----------------------------------------------------------------------------
(*                     Properties of SpectrumPlotter                       *)

Plotted == lastCall.op = "get_plot" /\ lastCall.err = None

\* index in adds of the latest successful add of label, 0 when there is none
LastAdd(label) ==
    IF \E i \in 1..Len(adds) : adds[i].label = label
    THEN CHOOSE i \in 1..Len(adds) :
            /\ adds[i].label = label
            /\ \A j \in (i + 1)..Len(adds) : adds[j].label # label
    ELSE 0

\* index in adds of the first successful add of label
FirstAdd(label) ==
    CHOOSE i \in 1..Len(adds) :
        /\ adds[i].label = label
        /\ \A j \in 1..(i - 1) : adds[j].label # label

RECURSIVE SumUnshifted(_, _)
\* the sum, point by point, of the y arrays of the first k stored entries
SumUnshifted(k, n) ==
    IF k = 0 THEN [p \in 1..n |-> 0]
    ELSE [p \in 1..n |-> SumUnshifted(k - 1, n)[p] + spectra[k].spectrum.y[p]]

RECURSIVE SumDrawn(_, _)
\* the sum, point by point, of the drawn (shifted) y arrays of the first k
\* curves of the last plot
SumDrawn(k, n) ==
    IF k = 0 THEN [p \in 1..n |-> 0]
    ELSE [p \in 1..n |-> SumDrawn(k - 1, n)[p] + lastCall.ret[k].y[p]]

\* C6: a call of add_spectrum with an object that lacks x or y raises
\* ValueError and leaves the stored entries and the colour list as they were.
C6_NoPartialInsert ==
    [][(lastCall'.op = "add_spectrum" /\ MissingAttribute(lastCall'.spectrum) # None)
          => (/\ lastCall'.err = "ValueError"
              /\ spectra' = spectra
              /\ colors' = colors)]_vars

\* C6 witness: a rejected add on a plotter that already holds entries
C6_Witness ==
    /\ lastCall.op = "add_spectrum"
    /\ lastCall.err = "ValueError"
    /\ lastCall.spectrum = NoY
    /\ Len(spectra) >= 2

\* C7 as claimed: in stacked mode the baseline under each entry is the sum of
\* the drawn (shifted) values of the entries before it.
C7_BaselineIsSumOfShifted ==
    (Plotted /\ stack) =>
        \A i \in 1..Len(lastCall.ret) :
            lastCall.ret[i].base = SumDrawn(i - 1, Len(lastCall.ret[i].y))

\* C7 amended: in stacked mode the entries are drawn in insertion order and
\* the baseline under each entry is the sum of the unshifted y values of the
\* entries before it; under the second entry that is the first curve as drawn.
C7_BaselineIsSumOfUnshifted ==
    (Plotted /\ stack) =>
        /\ Len(lastCall.ret) = Len(spectra)
        /\ \A i \in 1..Len(lastCall.ret) :
            /\ lastCall.ret[i].kind = "fill_between"
            /\ lastCall.ret[i].label = spectra[i].label
            /\ lastCall.ret[i].base = SumUnshifted(i - 1, Len(spectra[i].spectrum.y))
            /\ (i = 2 => lastCall.ret[i].base = lastCall.ret[1].y)

\* C7 witness: a stacked plot of three entries with a non-zero yshift
C7_Witness ==
    /\ Plotted
    /\ stack
    /\ yshift # 0
    /\ Len(lastCall.ret) = 3
    /\ lastCall.ret[3].base # SumDrawn(2, 2)

\* C8 as claimed: every entry is drawn with xshift applied to its x values (so
\* that they differ from the spectrum's own when xshift is not zero) and with
\* yshift times its position index added to its y values.
C8_ShiftsApplied ==
    Plotted =>
        \A i \in 1..Len(lastCall.ret) :
            /\ (xshift # 0 => lastCall.ret[i].x # spectra[i].spectrum.x)
            /\ lastCall.ret[i].y = AddScalar(spectra[i].spectrum.y, yshift * (i - 1))

\* C9 as claimed: every entry is drawn in the colour assigned by the add call
\* that stored its current spectrum.
C9_DrawnInAssignedColour ==
    Plotted =>
        \A i \in 1..Len(lastCall.ret) :
            lastCall.ret[i].color = adds[LastAdd(lastCall.ret[i].label)].color

\* C10: one entry per distinct label, holding the most recently added spectrum
\* at the position of the label's first add; the colour list is append-only
\* and has one colour per successful add, so it is never shorter than the
\* entries, strictly longer once a label was added twice, and colors[idx] is
\* in range for every entry get_plot draws.
C10_AccumulatorInvariant ==
    /\ \A i, j \in 1..Len(spectra) : i # j => spectra[i].label # spectra[j].label
    /\ {spectra[i].label : i \in 1..Len(spectra)} = {adds[k].label : k \in 1..Len(adds)}
    /\ \A i \in 1..Len(spectra) :
        spectra[i].spectrum = adds[LastAdd(spectra[i].label)].spectrum
    /\ \A i, j \in 1..Len(spectra) :
        i < j => FirstAdd(spectra[i].label) < FirstAdd(spectra[j].label)
    /\ Len(colors) = Len(adds)
    /\ \A k \in 1..Len(adds) : colors[k] = adds[k].color
    /\ Len(colors) >= Len(spectra)
    /\ (Len(colors) > Len(spectra)) <=>
         (\E k, m \in 1..Len(adds) : k # m /\ adds[k].label = adds[m].label)
    /\ lastCall.op = "get_plot" =>
         (lastCall.err = None /\ Len(lastCall.ret) = Len(spectra))

\* C10 witness: a plot drawn after a label was re-added
C10_Witness ==
    /\ Plotted
    /\ Len(spectra) = 2
    /\ Len(colors) = 3
    /\ spectra[1].label = adds[3].label


-----------------------------------------------------------------------------
(*                     Properties of the extractors                        *)

RECURSIVE InLang(_, _, _, _, _)
\* whether items[i..] can match exactly s[pos..], some way or other
InLang(items, i, s, pos, dotall) ==
    IF i > Len(items) THEN pos = Len(s)
    ELSE LET it == items[i]
             lo == IF it.q = "*" THEN 0 ELSE 1
             hi == IF it.q = "1" THEN 1 ELSE Len(s) - pos
         IN  \E l \in lo..hi :
                /\ pos + l <= Len(s)
                /\ \A k \in 1..l : s[pos + k] \in Chars(it.cls, dotall)
                /\ InLang(items, i + 1, s, pos + l, dotall)

\* text[from..to) as a text of its own
Piece(text, from, to) == SubSeq(text, from + 1, to)

\* the offsets at which a match of items that starts at offset pos can end
Ends(items, text, pos, dotall) ==
    {e \in pos..Len(text) : InLang(items, 1, Piece(text, pos, e), 0, dotall)}

\* the elements of a set of numbers in ascending order
Ascending(S) ==
    [k \in 1..Cardinality(S) |-> CHOOSE x \in S : Cardinality({y \in S : y < x}) = k - 1]

RECURSIVE Tiled(_, _, _, _)
\* whether text[from..to) is zero or more rows, one after the other
Tiled(row, text, from, to) ==
    \/ from = to
    \/ \E m \in (from + 1)..to :
        /\ InLang(row, 1, Piece(text, from, m), 0, TRUE)
        /\ Tiled(row, text, m, to)

\* whether text[from..to) is all whitespace
Blank(text, from, to) == \A k \in (from + 1)..to : text[k] \in Whitespace

\* whether a block starts at offset from: header, whitespace, one or more
\* rows, whitespace, footer
BlockAt(c, text, from) ==
    \E h \in Ends(c.header, text, from, TRUE) :
    \E b0 \in {p \in h..Len(text) : Blank(text, h, p)} :
    \E b1 \in {p \in (b0 + 1)..Len(text) : Tiled(c.row, text, b0, p)} :
    \E f \in {p \in b1..Len(text) : Blank(text, b1, p)} :
        Ends(c.footer, text, f, TRUE) # {}

\* the text holds at least one header-rows-footer block
HasBlock == \E from \in 0..Len(text_str) : BlockAt(cfg, text_str, from)

\* the pattern occurs somewhere in the text
Occurs(pattern, text) ==
    \E from \in 0..Len(text) : Ends(pattern, text, from, TRUE) # {}

(* The ways to read the whole text as header, then n >= 1 consecutive rows, *)
(* then footer: each the ascending offsets <<h, b1, ..., bn>>, the header   *)
(* being text[0..h), the rows text[h..b1), ..., and the footer              *)
(* text[bn..Len(text)).                                                     *)
Assemblies ==
    LET L == Len(text_str)
        hs == Ends(cfg.header, text_str, 0, TRUE)
        fs == {p \in 0..L : InLang(cfg.footer, 1, Piece(text_str, p, L), 0, TRUE)}
        ok(cuts) == \A k \in 1..(Len(cuts) - 1) :
                        InLang(cfg.row, 1, Piece(text_str, cuts[k], cuts[k + 1]), 0, TRUE)
        between(hf) == {Ascending(inner \cup {hf[1], hf[2]}) :
                           inner \in SUBSET ((hf[1] + 1)..(hf[2] - 1))}
    IN  {cuts \in UNION {between(hf) : hf \in {x \in hs \X fs : x[1] < x[2]}} : ok(cuts)}

\* the match of the row pattern on the whole of one row, as re.fullmatch
\* finds it
FullMatch(row, piece) ==
    SelectSeq(SeqPaths(row, 1, piece, 0, TRUE), LAMBDA m : m.end = Len(piece))[1]

\* the rows of an assembly, each as matched on its own
RowsOf(cuts) ==
    [k \in 1..(Len(cuts) - 1) |-> FullMatch(cfg.row, Piece(text_str, cuts[k], cuts[k + 1]))]

\* the Table the claim expects for an assembly: one Row per row, in order,
\* holding the postprocessed captures
ExpectedTable(cuts) ==
    [k \in 1..(Len(cuts) - 1) |-> ProcessedLine(RowsOf(cuts)[k], cfg.postprocess)]

(* An assembly is unambiguous when, where they stand in the text, the       *)
(* header pattern can match the header only, the row pattern at each row's  *)
(* start that row only (without the DOTALL flag too) and nothing at the     *)
(* footer's start, the footer pattern the footer only, and neither the      *)
(* first row nor the footer begins with whitespace.                         *)
Unambiguous(cuts) ==
    LET n == Len(cuts) - 1
    IN  /\ Ends(cfg.header, text_str, 0, TRUE) = {cuts[1]}
        /\ \A k \in 1..n : Ends(cfg.row, text_str, cuts[k], TRUE) = {cuts[k + 1]}
        /\ \A k \in 1..n : InLang(cfg.row, 1, Piece(text_str, cuts[k], cuts[k + 1]), 0, FALSE)
        /\ Ends(cfg.row, text_str, cuts[n + 1], TRUE) = {}
        /\ Ends(cfg.footer, text_str, cuts[n + 1], TRUE) = {Len(text_str)}
        /\ text_str[cuts[1] + 1] \notin Whitespace
        /\ text_str[cuts[n + 1] + 1] \notin Whitespace

TableCallMade == tablesAll.err # "pending" /\ cfg.attribute_name = None

\* C1 as claimed: for every way to read the text as header, n >= 1 rows and
\* footer, the call with last_one_only=False and no attribute_name returns
\* exactly one Table, holding the n Rows in order.
C1_OneTableOfNRows ==
    TableCallMade =>
        \A cuts \in Assemblies :
            ~AnyRaises(RowsOf(cuts), cfg.postprocess) =>
                /\ tablesAll.err = None
                /\ tablesAll.val = <<ExpectedTable(cuts)>>

\* What does hold of C1: the same for every unambiguous assembly, whose rows
\* the row pattern matches without the DOTALL flag too; when postprocess
\* rejects a captured value the call raises its ValueError instead.
C1_OneTableOfNRowsUnambiguous ==
    TableCallMade =>
        \A cuts \in Assemblies :
            Unambiguous(cuts) =>
                IF AnyRaises(RowsOf(cuts), cfg.postprocess)
                THEN tablesAll.err = "ValueError"
                ELSE /\ tablesAll.err = None
                     /\ tablesAll.val = <<ExpectedTable(cuts)>>

\* a case of it: an unambiguous text of two different rows was extracted
C1_Witness ==
    /\ TableCallMade
    /\ tablesAll.err = None
    /\ cfg.postprocess = "int"
    /\ \E cuts \in Assemblies :
        /\ Unambiguous(cuts)
        /\ Len(cuts) = 3
        /\ tablesAll.val = <<ExpectedTable(cuts)>>
        /\ ExpectedTable(cuts)[1] # ExpectedTable(cuts)[2]

\* the result of a table call without the attribute_name wrapping
Unwrap(val) == IF cfg.attribute_name # None THEN val[cfg.attribute_name] ELSE val

\* C2 as claimed: with terminate_on_match=False read_pattern returns, for
\* every pattern name, one record per non-overlapping occurrence, in order,
\* holding the postprocessed groups.
C2_OneRecordPerOccurrence ==
    (matches.err # "pending" /\ ~cfg.terminate_on_match) =>
        /\ matches.err = None
        /\ \A key \in DOMAIN cfg.patterns :
            LET ms == FindIter(cfg.patterns[key], text_str, 0, TRUE, FALSE)
            IN  Lookup(matches.val, key) = [j \in 1..Len(ms) |-> Record(ms[j], cfg.postprocess)]

\* C3 as claimed: with terminate_on_match=True read_pattern returns, for every
\* pattern name, at most one record, that of the first occurrence, whatever
\* the other patterns of the set matched.
C3_AtMostOneRecord ==
    (matches.err # "pending" /\ cfg.terminate_on_match) =>
        /\ matches.err = None
        /\ \A key \in DOMAIN cfg.patterns :
            LET ms == FindIter(cfg.patterns[key], text_str, 0, TRUE, FALSE)
            IN  /\ Len(Lookup(matches.val, key)) <= 1
                /\ Occurs(cfg.patterns[key], text_str) =>
                     Lookup(matches.val, key) = <<Record(ms[1], cfg.postprocess)>>

\* the table half of C4: without a block the full call returns an empty table
\* sequence and the last_one_only call raises IndexError
C4_TablesWithoutBlock ==
    /\ (tablesAll.err # "pending" /\ ~HasBlock) =>
         (tablesAll.err = None /\ Unwrap(tablesAll.val) = <<>>)
    /\ (tableLast.err # "pending" /\ ~HasBlock) => tableLast.err = "IndexError"

\* C4 as claimed: read_pattern returns without error and gives an empty list
\* for a pattern that never occurs; without a block new_read_table_pattern
\* returns an empty table sequence, and fails with IndexError only under
\* last_one_only=True.
C4_ZeroMatchesNormal ==
    /\ matches.err # "pending" =>
         /\ matches.err = None
         /\ \A key \in DOMAIN cfg.patterns :
              ~Occurs(cfg.patterns[key], text_str) => Lookup(matches.val, key) = <<>>
    /\ C4_TablesWithoutBlock

\* C5: on a text with at least one block the last_one_only=True call returns
\* the final element of what the last_one_only=False call returns, under the
\* same attribute_name wrapping (and both raise when postprocess does).
C5_LastIsFinalTable ==
    (tableLast.err # "pending" /\ HasBlock) =>
        /\ tableLast.err = tablesAll.err
        /\ tableLast.err \in {None, "ValueError"}
        /\ tableLast.err = None =>
            /\ Unwrap(tablesAll.val) # <<>>
            /\ Unwrap(tableLast.val) = Unwrap(tablesAll.val)[Len(Unwrap(tablesAll.val))]
            /\ cfg.attribute_name # None =>
                 (DOMAIN tableLast.val = {cfg.attribute_name}
                  /\ DOMAIN tablesAll.val = {cfg.attribute_name})

\* C5 witness: two different tables were found, with and without wrapping
C5_Witness ==
    /\ tableLast.err = None
    /\ cfg.attribute_name # None
    /\ Len(Unwrap(tablesAll.val)) = 2
    /\ Unwrap(tablesAll.val)[1] # Unwrap(tablesAll.val)[2]
    /\ Unwrap(tableLast.val) = Unwrap(tablesAll.val)[2]

=============================================================================
